---- MODULE Spec2Model ----
(***************************************************************************)
(* Token acquisition protocol of azure.identity.aio.ClientAssertionCredential *)
(* (azure/identity/aio/_credentials/client_assertion.py).                  *)
(*                                                                         *)
(* The credential's own methods (__init__, __aenter__, close,              *)
(* _acquire_token_silently, _request_token) are translated from the file.  *)
(* Its collaborators GetTokenMixin.get_token and AadClient live in         *)
(* azure/identity/aio/_internal, outside the file; they are modelled from  *)
(* the written specification (sections 4.1, 4.2, 5 and 7).                 *)
(*                                                                         *)
(* One get_token call runs on the event loop without interruption up to    *)
(* its first real suspension: _acquire_token_silently awaits nothing and   *)
(* self._func() is a plain call, so lookup, assertion production and the   *)
(* sending of the exchange request are one step (GetToken); the response   *)
(* of the exchange is a second step (ExchangeReturn).                      *)
(***************************************************************************)
EXTENDS Integers, Sequences, FiniteSets, TLC

\* ----- bounds of the model ------------------------------------------------
NumCalls == 2
MaxTime == 1
TokenLifetime == 2

\* ----- values -------------------------------------------------------------
Calls == 1..NumCalls
HomeTenant == "T1"
Wildcard == "*"
NoTenant == ""
Tenants == {"T1", "T2", "T3"}
\* the tenant_id a caller passes to get_token.  A call without the keyword
\* (NoTenant) is resolved by the client to the home tenant and behaves as
\* tenant_id = HomeTenant, so callers here always name the tenant.
TenantIds == Tenants
AllowLists == {{}, {"T2"}, {Wildcard}}
ScopeSets == {<<"S1">>}
CacheKeys == ScopeSets \X Tenants

\* safety margin of the cache: a token is handed out only while
\* now + Margin < expires_on
Margin == 1

\* lifetimes the token endpoint may grant: one the margin swallows whole,
\* and a long one
Lifetimes == {Margin, TokenLifetime}

\* azure.core.credentials.AccessToken; NoToken is Python's None
AccessToken(value, expires_on) == [value |-> value, expires_on |-> expires_on]
NoToken == AccessToken(0, 0)

\* what a (part of a) call yields: a token, None, a raised error, or a
\* suspension on the network exchange (request number in tok.value)
Return(tok) == [kind |-> "token", err |-> "", tok |-> tok]
Absent == [kind |-> "none", err |-> "", tok |-> NoToken]
Raise(e) == [kind |-> "error", err |-> e, tok |-> NoToken]
Await(id) == [kind |-> "await", err |-> "", tok |-> AccessToken(id, 0)]
NotCalled == [kind |-> "idle", err |-> "", tok |-> NoToken]

\* what a call did, in order: ev names the event, n carries the assertion
\* (func, send), the lifetime granted (recv_ok), or is 0
Event(ev, n) == [ev |-> ev, n |-> n]
Effect(events, out) == [events |-> events, out |-> out]

NoRequest == [scopes |-> <<>>, tenant_id |-> NoTenant, enable_cae |-> FALSE]
NoContext == [closed |-> FALSE, failedBefore |-> FALSE, follows |-> 0,
              held |-> NoToken, entry |-> NoToken]

VARIABLES
    config,         \* the constructor's arguments, as the caller gave them
    _client,        \* self._client: the AadClient (policy and session state)
    cache,          \* the client's token cache (kwarg "cache")
    cae_cache,      \* the client's CAE token cache (kwarg "cae_cache")
    funcCalls,      \* number of invocations of self._func so far
    netCalls,       \* number of exchange requests sent so far
    closeCalls,     \* number of completed close() calls
    now,            \* the clock
    pc,             \* per call: "idle", "exchange" (suspended), "done"
    req,            \* per call: the arguments of get_token
    result,         \* per call: what get_token returned or raised
    trace,          \* per call: the events of the call, in order
    ctx,            \* per call: the credential as the call found it
    justReturned,   \* the call whose exchange succeeded in the last step
    scope,          \* an "async with" block around the credential, if any
    bound           \* what "async with ... as" bound: __aenter__'s result

vars == <<config, _client, cache, cae_cache, funcCalls, netCalls, closeCalls,
          now, pc, req, result, trace, ctx, justReturned, scope, bound>>

\* ----- AadClient (modelled from the specification) -----------------------

\* the client the constructor builds
AadClient(tenant_id, additionally_allowed_tenants) ==
    [tenant_id |-> tenant_id,
     additionally_allowed_tenants |-> additionally_allowed_tenants,
     session |-> "created"]

\* TenantPolicy: the home tenant, the allowed tenants, or the wildcard
tenant_allowed(tenant_id) ==
    \/ tenant_id = NoTenant
    \/ tenant_id = _client.tenant_id
    \/ tenant_id \in _client.additionally_allowed_tenants
    \/ Wildcard \in _client.additionally_allowed_tenants

resolve_tenant(tenant_id) ==
    IF tenant_id = NoTenant THEN _client.tenant_id ELSE tenant_id

\* every use of the session is guarded: released session, then tenant policy
session_guard(tenant_id) ==
    IF _client.session = "closed" THEN Raise("SessionClosed")
    ELSE IF ~tenant_allowed(tenant_id) THEN Raise("TenantPolicyViolation")
    ELSE Absent

cache_of(enable_cae) == IF enable_cae THEN cae_cache ELSE cache

\* a cached token is valid until its expiry minus the margin
fresh(tok) == tok # NoToken /\ now + Margin < tok.expires_on

\* lookup_cached: a pure read of the cache of the request's partition
get_cached_access_token(scopes, tenant_id, enable_cae) ==
    LET g == session_guard(tenant_id)
        e == cache_of(enable_cae)[<<scopes, resolve_tenant(tenant_id)>>]
    IN  IF g.kind = "error" THEN g
        ELSE IF fresh(e) THEN Return(e)
        ELSE Absent

\* exchange_by_assertion, up to the sending of the request
obtain_token_by_jwt_assertion(scopes, assertion, tenant_id, enable_cae) ==
    LET g == session_guard(tenant_id)
    IN  IF g.kind = "error" THEN Effect(<<>>, g)
        ELSE Effect(<<Event("send", assertion)>>, Await(netCalls + 1))

\* ----- ClientAssertionCredential ------------------------------------------

\* variant: additionally_allowed_tenants is not handed on to the client
__init___drops_allowed(tenant_id, additionally_allowed_tenants) ==
    AadClient(tenant_id, {})

__init__(tenant_id, additionally_allowed_tenants) ==
    AadClient(tenant_id, additionally_allowed_tenants)

\* variant: the method lacks its return statement and yields None
_acquire_token_silently_no_return(scopes, tenant_id, enable_cae) ==
    LET s == get_cached_access_token(scopes, tenant_id, enable_cae)
    IN  IF s.kind = "error" THEN s ELSE Absent

\* variant: **kwargs is not handed on, the lookup is for the home tenant
_acquire_token_silently_no_kwargs(scopes, tenant_id, enable_cae) ==
    get_cached_access_token(scopes, NoTenant, FALSE)

\* variant: the cache entry is read directly, whatever its age
_acquire_token_silently_any_age(scopes, tenant_id, enable_cae) ==
    LET s == get_cached_access_token(scopes, tenant_id, enable_cae)
        e == cache_of(enable_cae)[<<scopes, resolve_tenant(tenant_id)>>]
    IN  IF s.kind = "none" /\ e # NoToken THEN Return(e) ELSE s

\* variant: tenant_id is lost, the lookup is for the home tenant
_acquire_token_silently_home(scopes, tenant_id, enable_cae) ==
    get_cached_access_token(scopes, NoTenant, enable_cae)

\* variant: on a miss the silent acquisition goes to the network itself
_acquire_token_silently_network(scopes, tenant_id, enable_cae) ==
    LET s == get_cached_access_token(scopes, tenant_id, enable_cae)
    IN  IF s.kind = "none" THEN Await(netCalls + 1) ELSE s

\* variant: enable_cae is lost, the lookup always reads the plain cache
_acquire_token_silently_plain(scopes, tenant_id, enable_cae) ==
    get_cached_access_token(scopes, tenant_id, FALSE)

_acquire_token_silently(scopes, tenant_id, enable_cae) ==
    get_cached_access_token(scopes, tenant_id, enable_cae)

\* variant: the assertion of an earlier acquisition is kept and sent again
_request_token_kept_assertion(scopes, tenant_id, enable_cae, funcOk) ==
    IF funcCalls > 0
    THEN obtain_token_by_jwt_assertion(scopes, funcCalls, tenant_id,
                                       enable_cae)
    ELSE IF ~funcOk
    THEN Effect(<<Event("func_raise", 0)>>, Raise("AssertionProductionError"))
    ELSE LET x == obtain_token_by_jwt_assertion(scopes, 1, tenant_id,
                                                enable_cae)
         IN  Effect(<<Event("func", 1)>> \o x.events, x.out)

\* variant: a failed producer is called a second time
_request_token_retry(scopes, tenant_id, enable_cae, funcOk) ==
    IF ~funcOk
    THEN Effect(<<Event("func_raise", 0), Event("func_raise", 0)>>,
                Raise("AssertionProductionError"))
    ELSE LET assertion == funcCalls + 1
             x == obtain_token_by_jwt_assertion(scopes, assertion, tenant_id,
                                                enable_cae)
         IN  Effect(<<Event("func", assertion)>> \o x.events, x.out)

\* variant: a failed producer is ignored and the exchange is sent anyway
_request_token_fallback(scopes, tenant_id, enable_cae, funcOk) ==
    LET assertion == IF funcOk THEN funcCalls + 1 ELSE 0
        x == obtain_token_by_jwt_assertion(scopes, assertion, tenant_id,
                                           enable_cae)
    IN  Effect(<<Event(IF funcOk THEN "func" ELSE "func_raise", assertion)>>
                  \o x.events, x.out)

\* variant: once an exchange has failed, later acquisitions give up at once
_request_token_poisoned(scopes, tenant_id, enable_cae, funcOk) ==
    IF \E q \in Calls : result[q] = Raise("TokenExchangeError")
    THEN Effect(<<>>, Raise("TokenExchangeError"))
    ELSE IF ~funcOk
    THEN Effect(<<Event("func_raise", 0)>>, Raise("AssertionProductionError"))
    ELSE LET assertion == funcCalls + 1
             x == obtain_token_by_jwt_assertion(scopes, assertion, tenant_id,
                                                enable_cae)
         IN  Effect(<<Event("func", assertion)>> \o x.events, x.out)

\* variant: the exchange is started before the producer is asked
_request_token_send_first(scopes, tenant_id, enable_cae, funcOk) ==
    LET assertion == funcCalls + 1
        x == obtain_token_by_jwt_assertion(scopes, assertion, tenant_id,
                                           enable_cae)
    IN  IF ~funcOk
        THEN Effect(x.events \o <<Event("func_raise", 0)>>,
                    Raise("AssertionProductionError"))
        ELSE Effect(x.events \o <<Event("func", assertion)>>, x.out)

\* assertion = self._func(); token = await self._client.obtain_...(...)
\* funcOk: whether the caller's producer returns or raises
_request_token(scopes, tenant_id, enable_cae, funcOk) ==
    IF ~funcOk
    THEN Effect(<<Event("func_raise", 0)>>, Raise("AssertionProductionError"))
    ELSE LET assertion == funcCalls + 1
             x == obtain_token_by_jwt_assertion(scopes, assertion, tenant_id,
                                                enable_cae)
         IN  Effect(<<Event("func", assertion)>> \o x.events, x.out)

\* ----- GetTokenMixin (modelled from the specification) -------------------

\* START -> SILENT_LOOKUP -> {RETURN | ASSERTION_REQUEST -> EXCHANGE}
\* (the silent acquisition is awaited: were it to suspend, so would the call)
get_token(scopes, tenant_id, enable_cae, funcOk) ==
    LET s == _acquire_token_silently(scopes, tenant_id, enable_cae)
    IN  IF s.kind = "error" THEN Effect(<<Event("lookup_raise", 0)>>, s)
        ELSE IF s.kind = "token" THEN Effect(<<Event("hit", 0)>>, s)
        ELSE IF s.kind = "await" THEN Effect(<<Event("lookup_await", 0)>>, s)
        ELSE LET r == _request_token(scopes, tenant_id, enable_cae, funcOk)
             IN  Effect(<<Event("miss", 0)>> \o r.events, r.out)

\* ----- helpers over traces ------------------------------------------------
Count(s, evs) == Cardinality({i \in 1..Len(s) : s[i].ev \in evs})
nFunc(p) == Count(trace[p], {"func", "func_raise"})
nSend(p) == Count(trace[p], {"send"})
Has(p, ev) == \E i \in 1..Len(trace[p]) : trace[p][i].ev = ev

\* the key a request addresses, from the request alone
KeyOf(r) == <<r.scopes, IF r.tenant_id = NoTenant THEN config.tenant_id
                        ELSE r.tenant_id>>
EntryOf(r) == cache_of(r.enable_cae)[KeyOf(r)]

\* the token the cache holds for a request and may still hand out, if any
HeldFor(r) ==
    IF EntryOf(r) # NoToken /\ now + Margin < EntryOf(r).expires_on
    THEN EntryOf(r) ELSE NoToken

\* ----- the state machine --------------------------------------------------
Init ==
    /\ \E allow \in AllowLists :
         /\ config = [tenant_id |-> HomeTenant,
                      additionally_allowed_tenants |-> allow]
         /\ _client = __init__(HomeTenant, allow)
    /\ cache = [k \in CacheKeys |-> NoToken]
    /\ cae_cache = [k \in CacheKeys |-> NoToken]
    /\ funcCalls = 0
    /\ netCalls = 0
    /\ closeCalls = 0
    /\ now = 0
    /\ pc = [p \in Calls |-> "idle"]
    /\ req = [p \in Calls |-> NoRequest]
    /\ result = [p \in Calls |-> NotCalled]
    /\ trace = [p \in Calls |-> <<>>]
    /\ ctx = [p \in Calls |-> NoContext]
    /\ justReturned = 0
    /\ scope = "outside"
    /\ bound = "nothing"

\* what entering does to the client: await self._client.__aenter__()
enter_client(c) == [c EXCEPT !.session = "entered"]

\* variant: the client's own __aenter__ result is returned
aenter_result_client == "client"

\* return self
aenter_result == "self"

\* async def __aenter__: await self._client.__aenter__(); return self
\* (a session is entered once, before it is released)
enter(scopeAfter) ==
    /\ _client.session = "created"
    /\ _client' = enter_client(_client)
    /\ bound' = IF scopeAfter = "inside" THEN aenter_result ELSE bound
    /\ scope' = scopeAfter
    /\ justReturned' = 0
    /\ UNCHANGED <<config, cache, cae_cache, funcCalls, netCalls, closeCalls,
                   now, pc, req, result, trace, ctx>>

__aenter__ == enter(scope)

\* variant: close() returns without closing the client
close_client_forgotten(c) == c

\* what close() does to the client: await self._client.close()
close_client(c) == [c EXCEPT !.session = "closed"]

\* (the contract allows one close(): a second one is undefined)
release(scopeAfter) ==
    /\ closeCalls = 0
    /\ _client' = close_client(_client)
    /\ closeCalls' = closeCalls + 1
    /\ scope' = scopeAfter
    /\ justReturned' = 0
    /\ UNCHANGED <<config, cache, cae_cache, funcCalls, netCalls, now, pc,
                   req, result, trace, ctx, bound>>

close == release(scope)

\* a caller starts get_token; the call runs to its return, its error or its
\* suspension on the exchange.  Calls are numbered in the order they start.
GetToken(p) ==
    /\ pc[p] = "idle"
    /\ p > 1 => pc[p - 1] # "idle"
    /\ \E scopes \in ScopeSets, tenant_id \in TenantIds,
          enable_cae \in BOOLEAN, funcOk \in BOOLEAN :
         LET r == [scopes |-> scopes, tenant_id |-> tenant_id,
                   enable_cae |-> enable_cae]
             e == get_token(scopes, tenant_id, enable_cae, funcOk)
         IN  /\ req' = [req EXCEPT ![p] = r]
             /\ ctx' = [ctx EXCEPT ![p] =
                          [closed |-> closeCalls > 0,
                           failedBefore |->
                              \E q \in Calls :
                                 result[q] = Raise("TokenExchangeError"),
                           follows |-> justReturned,
                           held |-> HeldFor(r),
                           entry |-> EntryOf(r)]]
             /\ trace' = [trace EXCEPT ![p] = e.events]
             /\ result' = [result EXCEPT ![p] = e.out]
             /\ pc' = [pc EXCEPT ![p] =
                         IF e.out.kind = "await" THEN "exchange" ELSE "done"]
             /\ funcCalls' = funcCalls + Count(e.events, {"func", "func_raise"})
             /\ netCalls' = netCalls + Count(e.events, {"send"})
    /\ justReturned' = 0
    /\ UNCHANGED <<config, _client, cache, cae_cache, closeCalls, now, scope,
                   bound>>

\* the response of the token endpoint as the client hands it on: a token
\* (stored into the cache), a failure or a cancellation
exchange_response(p, outcome, lifetime) ==
    IF outcome = "ok"
    THEN Return(AccessToken(result[p].tok.value, now + lifetime))
    ELSE IF outcome = "cancel" THEN Raise("Cancelled")
    ELSE Raise("TokenExchangeError")

\* variant: an error of the exchange is swallowed when the cache still holds
\* a token for the request
_request_token_return_swallow(p, response) ==
    IF response.kind = "error" /\ EntryOf(req[p]) # NoToken
    THEN Return(EntryOf(req[p]))
    ELSE response

\* variant: whatever the awaited exchange raises is reported as a failed
\* exchange
_request_token_return_wrap(p, response) ==
    IF response.kind = "error" THEN Raise("TokenExchangeError") ELSE response

\* token = await ...; return token
_request_token_return(p, response) == response

\* the exchange of call p returns; the endpoint grants one of lifetimes
ExchangeReturnWith(p, lifetimes) ==
    /\ pc[p] = "exchange"
    /\ \E outcome \in {"ok", "fail", "cancel"}, lifetime \in lifetimes :
         LET x == exchange_response(p, outcome, lifetime)
             k == <<req[p].scopes, resolve_tenant(req[p].tenant_id)>>
             out == _request_token_return(p, x)
         IN  /\ outcome = "ok" => _client.session # "closed"
             /\ IF x.kind = "token" /\ req[p].enable_cae
                THEN cae_cache' = [cae_cache EXCEPT ![k] = x.tok]
                ELSE UNCHANGED cae_cache
             /\ IF x.kind = "token" /\ ~req[p].enable_cae
                THEN cache' = [cache EXCEPT ![k] = x.tok]
                ELSE UNCHANGED cache
             /\ trace' = [trace EXCEPT ![p] =
                            Append(@, Event("recv_" \o outcome,
                                            IF outcome = "ok" THEN lifetime
                                            ELSE 0))]
             /\ result' = [result EXCEPT ![p] = out]
             /\ justReturned' = IF outcome = "ok" THEN p ELSE 0
    /\ pc' = [pc EXCEPT ![p] = "done"]
    /\ UNCHANGED <<config, _client, funcCalls, netCalls, closeCalls, now, req,
                   ctx, scope, bound>>

\* the endpoint grants the long lifetime
ExchangeReturn(p) == ExchangeReturnWith(p, {TokenLifetime})

\* the endpoint grants any lifetime
ExchangeReturnAny(p) == ExchangeReturnWith(p, Lifetimes)

Tick ==
    /\ now < MaxTime
    /\ now' = now + 1
    /\ justReturned' = 0
    /\ UNCHANGED <<config, _client, cache, cae_cache, funcCalls, netCalls,
                   closeCalls, pc, req, result, trace, ctx, scope, bound>>

Next ==
    \/ __aenter__
    \/ close
    \/ \E p \in Calls : GetToken(p)
    \/ \E p \in Calls : ExchangeReturn(p)
    \/ Tick

Spec == Init /\ [][Next]_vars

\* the same credential under the policy {"T2"}, with an endpoint that may
\* grant short lifetimes
InitLifetimes ==
    /\ Init
    /\ config.additionally_allowed_tenants = {"T2"}

NextLifetimes ==
    \/ __aenter__
    \/ close
    \/ \E p \in Calls : GetToken(p)
    \/ \E p \in Calls : ExchangeReturnAny(p)
    \/ Tick

SpecLifetimes == InitLifetimes /\ [][NextLifetimes]_vars

\* ----- the credential as a scoped resource -------------------------------
\* async with credential as c: ... await c.get_token(...) ...

Failed(p) == result[p].kind = "error"

\* async with: __aenter__ on entry
ScopeEnter ==
    /\ scope = "outside"
    /\ enter("inside")

\* a get_token call in the body of the block
ScopedGetToken(p) ==
    /\ scope = "inside"
    /\ GetToken(p)

\* AsyncContextManager.__aexit__: close(), when the body returns or an error
\* of a get_token call leaves it
ScopeExit ==
    /\ scope = "inside"
    /\ release(IF \E p \in Calls : Failed(p) THEN "exited_error"
               ELSE "exited")

NextScoped ==
    \/ ScopeEnter
    \/ \E p \in Calls : ScopedGetToken(p)
    \/ \E p \in Calls : ExchangeReturn(p)
    \/ Tick
    \/ ScopeExit

SpecScoped == Init /\ [][NextScoped]_vars

\* ----- the claims ----------------------------------------------------------

Started(p) == pc[p] # "idle"

\* the policy as the caller configured it
Permitted(r) ==
    \/ r.tenant_id = NoTenant
    \/ r.tenant_id = config.tenant_id
    \/ r.tenant_id \in config.additionally_allowed_tenants
    \/ Wildcard \in config.additionally_allowed_tenants

\* the cache held a token for the call's key that was valid when it started
HeldValid(p) == ctx[p].held # NoToken

ShortCircuit(p) ==
    /\ result[p] = Return(ctx[p].held)
    /\ nFunc(p) = 0
    /\ nSend(p) = 0

C2_ExactlyOncePerMiss ==
    \A p \in Calls : Has(p, "miss") => nFunc(p) = 1

C2_Witness ==
    \E p, q \in Calls :
        /\ p # q
        /\ pc[p] = "exchange" /\ pc[q] = "exchange"
        /\ req[p] = req[q]
        /\ Has(p, "miss") /\ Has(q, "miss")
        /\ nFunc(p) = 1 /\ nFunc(q) = 1

TenantRejected(p) ==
    /\ result[p] = Raise("TenantPolicyViolation")
    /\ nSend(p) = 0

C4_TenantPermissive ==
    \A p \in Calls :
        Started(p) /\ req[p].tenant_id # NoTenant /\ Permitted(req[p])
            => result[p].err # "TenantPolicyViolation"

C4_Witness ==
    \E p, q \in Calls :
        /\ Wildcard \in config.additionally_allowed_tenants
        /\ req[p].tenant_id = "T3" /\ result[p].kind = "token"
        /\ req[q].tenant_id = "T1" /\ result[q].kind = "token"

\* C5: a get_token call made after close() has completed fails with
\* SessionClosed, sends no exchange and returns no token.
C5_CloseThenReject ==
    \A p \in Calls :
        Started(p) /\ ctx[p].closed
            => result[p] = Raise("SessionClosed") /\ nSend(p) = 0

C5_Witness ==
    \E p \in Calls :
        /\ Started(p) /\ ctx[p].closed
        /\ HeldValid(p)
        /\ result[p] = Raise("SessionClosed")

\* C6: a get_token call whose exchange failed fails with TokenExchangeError;
\* it returns no token, cached or made up, and no other outcome.
C6_NoTokenOnExchangeFailure ==
    \A p \in Calls :
        Has(p, "recv_fail") => result[p] = Raise("TokenExchangeError")

C6_Witness ==
    \E p \in Calls :
        /\ Has(p, "recv_fail")
        /\ EntryOf(req[p]) # NoToken
        /\ result[p] = Raise("TokenExchangeError")

LookupEvents == {"hit", "miss", "lookup_raise"}

\* C7: a get_token call on an unclosed credential made after an earlier call
\* failed with TokenExchangeError starts with a silent lookup that sees the
\* cache as it is, and on a miss invokes the producer and (given an
\* assertion) the exchange; it fails only through its own lookup, producer
\* or exchange.
C7_NoPoisonedFailure ==
    \A q \in Calls :
        Started(q) /\ ctx[q].failedBefore /\ ~ctx[q].closed =>
            /\ Len(trace[q]) > 0 /\ trace[q][1].ev \in LookupEvents
            /\ Permitted(req[q]) => (HeldValid(q) <=> Has(q, "hit"))
            /\ Has(q, "miss") => nFunc(q) = 1
            /\ Has(q, "func") => nSend(q) = 1
            /\ result[q].err = "TokenExchangeError" => Has(q, "recv_fail")

C7_Witness ==
    \E q \in Calls :
        /\ ctx[q].failedBefore /\ ~ctx[q].closed
        /\ Has(q, "miss") /\ Has(q, "func") /\ Has(q, "recv_ok")
        /\ result[q].kind = "token"

\* the exchange of the call granted a lifetime beyond the margin
LongLived(p) ==
    \E i \in 1..Len(trace[p]) :
        trace[p][i].ev = "recv_ok" /\ trace[p][i].n > Margin

\* C8: once a get_token call has missed the cache and succeeded through
\* producer and exchange (token lifetime beyond the margin, as the scenario's
\* 3600 s), its token is in the cache under the request's key,
\* and a get_token call made immediately afterwards with the same scopes,
\* tenant and cae flag returns the identical token without invoking the
\* producer or the exchange.
C8_TokenReuse ==
    /\ \A p \in Calls :
          justReturned = p =>
              /\ result[p].kind = "token"
              /\ EntryOf(req[p]) = result[p].tok
    /\ \A p, q \in Calls :
          ctx[q].follows = p /\ req[q] = req[p] /\ LongLived(p) =>
              /\ result[q] = result[p]
              /\ trace[q] = <<Event("hit", 0)>>

C8_Witness ==
    \E p, q \in Calls :
        /\ ctx[q].follows = p /\ req[q] = req[p]
        /\ req[p].enable_cae
        /\ Has(p, "miss") /\ Has(p, "func") /\ Has(p, "recv_ok")
        /\ result[q] = result[p] /\ result[q].kind = "token"
        /\ funcCalls = 1 /\ netCalls = 1

\* C9: a get_token call, whatever its outcome, invokes the assertion producer
\* at most once and sends at most one exchange.
C9_BoundedSideEffects ==
    \A p \in Calls : nFunc(p) <= 1 /\ nSend(p) <= 1

C9_Witness ==
    \E p, q \in Calls :
        /\ Has(p, "func_raise") /\ nFunc(p) = 1 /\ nSend(p) = 0
        /\ Has(q, "recv_fail") /\ nFunc(q) = 1 /\ nSend(q) = 1

ProducerFailed(p) ==
    /\ result[p] = Raise("AssertionProductionError")
    /\ nFunc(p) = 1
    /\ nSend(p) = 0

\* C10: when the producer fails during a get_token call, the call fails with
\* AssertionProductionError, the producer is not invoked again, no exchange
\* is sent, no token is returned, and the step leaves both caches unchanged.
C10_ProducerFailure ==
    /\ [](\A p \in Calls : Has(p, "func_raise") => ProducerFailed(p))
    /\ [][\A p \in Calls :
            (\E i \in 1..Len(trace'[p]) : trace'[p][i].ev = "func_raise")
            /\ ~Has(p, "func_raise")
                => cache' = cache /\ cae_cache' = cae_cache]_vars

C10_Witness ==
    \E p \in Calls :
        /\ Has(p, "func_raise")
        /\ ProducerFailed(p)
        /\ \E k \in CacheKeys : cache[k] # NoToken

\* a call returns a token in this step
ReturnsToken(p) == result[p].kind # "token" /\ result'[p].kind = "token"
StartsNow(p) == pc[p] = "idle" /\ pc'[p] # "idle"

\* the cache holds an entry for the request that is too old to hand out
StaleFor(r) == EntryOf(r) # NoToken /\ HeldFor(r) = NoToken

AcquirePhase(s) ==
    /\ Len(s) >= 2
    /\ s[1].ev = "miss"
    /\ s[2].ev \in {"func", "func_raise"}

\* C11 (as stated): every token get_token returns at time t satisfies
\* t < expires_on - margin, and a call that finds a cached token past its
\* expiry minus the margin does not return it but enters the acquire phase.
C11_TokenFreshness_AsStated ==
    [][\A p \in Calls :
          /\ ReturnsToken(p) => now' + Margin < result'[p].tok.expires_on
          /\ StartsNow(p) /\ StaleFor(req'[p]) =>
                /\ result'[p] # Return(EntryOf(req'[p]))
                /\ AcquirePhase(trace'[p])]_vars

\* C11 (amended): every token get_token returns from the cache at time t
\* satisfies t < expires_on - margin (a token fresh from the exchange is
\* returned as the endpoint issued it), and on a credential that has not been
\* closed a call that finds a cached token past its expiry minus the margin
\* does not return it but enters the acquire phase.
C11_TokenFreshness ==
    [][\A p \in Calls :
          /\ StartsNow(p) /\ ReturnsToken(p) =>
                now' + Margin < result'[p].tok.expires_on
          /\ StartsNow(p) /\ StaleFor(req'[p]) =>
                /\ result'[p] # Return(EntryOf(req'[p]))
                /\ closeCalls = 0 => AcquirePhase(trace'[p])]_vars

C11_Witness ==
    \E p, q \in Calls :
        /\ ctx[q].entry # NoToken /\ ctx[q].held = NoToken
        /\ ~ctx[q].closed
        /\ req[q] = req[p]
        /\ LongLived(p)
        /\ now > 0
        /\ Has(q, "miss") /\ Has(q, "recv_ok")
        /\ result[q].kind = "token" /\ result[q] # result[p]

\* C12: in an "async with" block, entering returns the credential itself;
\* while the block runs, no get_token call or failure releases the session;
\* once the block is left, by return or by a get_token error, the session
\* has been released exactly once.
C12_ScopedRelease ==
    /\ scope # "outside" => bound = "self"
    /\ scope = "inside" => _client.session = "entered" /\ closeCalls = 0
    /\ scope \in {"exited", "exited_error"} =>
          _client.session = "closed" /\ closeCalls = 1

C12_Witness ==
    /\ scope = "exited_error"
    /\ \E p \in Calls : result[p] = Raise("TokenExchangeError")
    /\ \E p \in Calls : result[p].kind = "token"
    /\ _client.session = "closed" /\ closeCalls = 1

\* the exchange of call p is cancelled in this step
CancelledNow(p) == ~Has(p, "recv_cancel") /\ pc[p] = "exchange" /\
                   trace'[p][Len(trace'[p])].ev = "recv_cancel"

\* C13 (as stated): a get_token call cancelled during its exchange fails
\* with Cancelled, returns no token, and the cache content under the
\* request's key is then what it was when the call began.
C13_Cancellation_AsStated ==
    [][\A p \in Calls :
          CancelledNow(p) =>
              /\ result'[p] = Raise("Cancelled")
              /\ cache_of(req[p].enable_cae)'[KeyOf(req[p])] = ctx[p].entry]_vars

\* C13 (amended): a get_token call cancelled during its exchange fails with
\* Cancelled, returns no token and stores nothing: its cancellation leaves
\* both caches as they are, and the content under the request's key is what
\* it was when the call began unless the exchange of another call has stored
\* its token there meanwhile.
C13_Cancellation ==
    [][\A p \in Calls :
          CancelledNow(p) =>
              /\ result'[p] = Raise("Cancelled")
              /\ cache' = cache /\ cae_cache' = cae_cache
              /\ \/ EntryOf(req[p]) = ctx[p].entry
                 \/ \E q \in Calls \ {p} :
                       /\ Has(q, "recv_ok")
                       /\ req[q] = req[p]
                       /\ EntryOf(req[p]) = result[q].tok]_vars

C13_Witness ==
    \E p \in Calls :
        /\ Has(p, "recv_cancel")
        /\ result[p] = Raise("Cancelled")
        /\ ctx[p].entry # NoToken
        /\ EntryOf(req[p]) = ctx[p].entry

\* the exchange of call q produced a token for (key k, partition cae)
Exchanged(q, k, cae) ==
    /\ Has(q, "recv_ok")
    /\ KeyOf(req[q]) = k
    /\ req[q].enable_cae = cae

\* C14: however get_token calls for one key overlap, every call that
\* returns a token returns one that an exchange for that key produced, and
\* the cache entry of a key is empty or the token of exactly one successful
\* exchange for that key, never a mixture.
C14_ConcurrentPopulation ==
    /\ \A p \in Calls :
          result[p].kind = "token" =>
              \E q \in Calls :
                  /\ Exchanged(q, KeyOf(req[p]), req[p].enable_cae)
                  /\ result[q] = result[p]
    /\ \A k \in CacheKeys, cae \in BOOLEAN :
          LET writers == {q \in Calls : Exchanged(q, k, cae)}
              e == cache_of(cae)[k]
          IN  IF writers = {} THEN e = NoToken
              ELSE Cardinality({q \in writers : result[q].tok = e}) = 1

C14_Witness ==
    \E p, q \in Calls :
        /\ p < q
        /\ req[p] = req[q]
        /\ ctx[p].entry = NoToken /\ ctx[q].entry = NoToken
        /\ Has(p, "recv_ok") /\ Has(q, "recv_ok")
        /\ result[p] # result[q]
        /\ EntryOf(req[p]) = result[p].tok
        /\ \A r \in Calls : pc[r] = "done"

\* C15: within a get_token call the producer is invoked only after the
\* call's lookup has missed, and the exchange is sent only after the call's
\* producer has returned the assertion it sends.
C15_IntraCallOrdering ==
    \A p \in Calls : \A i \in 1..Len(trace[p]) :
        /\ trace[p][i].ev \in {"func", "func_raise"} =>
              \E j \in 1..(i - 1) : trace[p][j].ev = "miss"
        /\ trace[p][i].ev = "send" =>
              \E j \in 1..(i - 1) :
                  /\ trace[p][j].ev = "func"
                  /\ trace[p][j].n = trace[p][i].n

C15_Witness ==
    \E p \in Calls :
        /\ Len(trace[p]) = 4
        /\ trace[p][1].ev = "miss"
        /\ trace[p][2].ev = "func"
        /\ trace[p][3].ev = "send"
        /\ trace[p][4].ev = "recv_ok"
        /\ trace[p][2].n = trace[p][3].n

\* the events named ev of all calls
EventsOf(ev) ==
    UNION {{<<p, i>> : i \in {j \in 1..Len(trace[p]) : trace[p][j].ev = ev}} :
           p \in Calls}

\* every exchange is sent the assertion its own call's producer returned,
\* and no assertion is sent twice
OwnAssertion ==
    /\ \A x \in EventsOf("send") :
          \E i \in 1..Len(trace[x[1]]) :
              /\ trace[x[1]][i].ev = "func"
              /\ trace[x[1]][i].n = trace[x[1]][x[2]].n
    /\ \A x, y \in EventsOf("send") :
          trace[x[1]][x[2]].n = trace[y[1]][y[2]].n => x = y

\* C16 (as stated): every exchange is sent the assertion its own call's
\* producer returned, no assertion is sent to two exchanges, and the number
\* of producer invocations equals the number of exchanges started.
C16_AssertionNeverReused_AsStated ==
    /\ OwnAssertion
    /\ funcCalls = netCalls

\* C16 (amended): every exchange is sent the assertion its own call's
\* producer returned, no assertion is sent to two exchanges, and the number
\* of producer invocations that returned an assertion equals the number of
\* exchanges started (an invocation that fails starts none).
C16_AssertionNeverReused ==
    /\ OwnAssertion
    /\ Cardinality(EventsOf("func")) = netCalls
    /\ Cardinality(EventsOf("send")) = netCalls
    /\ funcCalls = netCalls + Cardinality(EventsOf("func_raise"))

C16_Witness ==
    \E p, q \in Calls :
        /\ p < q
        /\ req[p] = req[q]
        /\ Has(p, "recv_fail") /\ Has(q, "send")
        /\ trace[p][2].n = 1 /\ trace[q][2].n = 2
        /\ funcCalls = 2 /\ netCalls = 2

\* C17: the silent lookup of a get_token call leaves the caches, the session
\* and the other calls as they are, invokes no producer and sends nothing
\* (what the step of a call adds to the counters is its own producer
\* invocation and exchange), and never suspends: a call is suspended only on
\* its exchange, after sending it.
C17_SilentPhasePureRead ==
    /\ [](\A p \in Calls :
             pc[p] = "exchange" =>
                 /\ Len(trace[p]) > 0
                 /\ trace[p][Len(trace[p])].ev = "send")
    /\ [][\A p \in Calls :
             StartsNow(p) =>
                 /\ cache' = cache /\ cae_cache' = cae_cache
                 /\ _client' = _client
                 /\ \A q \in Calls \ {p} :
                       /\ pc'[q] = pc[q]
                       /\ result'[q] = result[q]
                       /\ trace'[q] = trace[q]
                 /\ trace'[p][1].ev \in {"hit", "lookup_raise"} =>
                       /\ Len(trace'[p]) = 1
                       /\ pc'[p] = "done"
                       /\ funcCalls' = funcCalls
                       /\ netCalls' = netCalls
                 /\ trace'[p][1].ev \in LookupEvents]_vars

C17_Witness ==
    \E p, q \in Calls :
        /\ p < q
        /\ pc[p] = "exchange"
        /\ req[q] = req[p]
        /\ trace[q] = <<Event("miss", 0), Event("func_raise", 0)>>
        /\ funcCalls = 2 /\ netCalls = 1

\* the call whose exchange produced the token a call returned, if any
ProducedBy(q) ==
    {p \in Calls : /\ Has(p, "recv_ok")
                   /\ result[p].kind = "token"
                   /\ result[p].tok.value = result[q].tok.value}

\* C18: a token that get_token returns was stored by an exchange made for
\* the same scopes, the same tenant and the same cae flag as the request it
\* is returned for; a request that differs in tenant or cae flag never gets it.
C18_CacheKeyIsolation ==
    \A q \in Calls :
        result[q].kind = "token" =>
            /\ ProducedBy(q) # {}
            /\ \A p \in ProducedBy(q) :
                  /\ KeyOf(req[p]) = KeyOf(req[q])
                  /\ req[p].enable_cae = req[q].enable_cae

C18_Witness ==
    \E p, q \in Calls :
        /\ p < q
        /\ Has(p, "recv_ok")
        /\ ctx[q].follows = p
        /\ req[q].tenant_id = req[p].tenant_id
        /\ req[q].enable_cae # req[p].enable_cae
        /\ HeldFor(req[p]) # NoToken
        /\ Has(q, "miss") /\ Has(q, "recv_ok")
        /\ result[q].kind = "token"
        /\ result[q].tok.value # result[p].tok.value

\* C19: a get_token call that fails with TenantPolicyViolation has not
\* invoked the assertion producer: it was rejected by its lookup, before
\* the producer's turn.
C19_NoAssertionOnRejectedTenant ==
    \A p \in Calls :
        result[p] = Raise("TenantPolicyViolation") =>
            /\ nFunc(p) = 0
            /\ trace[p] = <<Event("lookup_raise", 0)>>

C19_Witness ==
    \E p, q \in Calls :
        /\ p < q
        /\ funcCalls = 1
        /\ Has(p, "recv_ok")
        /\ req[q].tenant_id = "T3"
        /\ result[q] = Raise("TenantPolicyViolation")
        /\ nFunc(q) = 0

TypeOK ==
    /\ now \in 0..MaxTime
    /\ closeCalls \in 0..1
    /\ \A p \in Calls : pc[p] \in {"idle", "exchange", "done"}

====
